---- MODULE Spec2Model ----
(***************************************************************************)
(* Model of aws_lambda_runtime/src/server.rs: one Connection (session)     *)
(* multiplexing a framed decoder, a FuturesUnordered set of Invocations    *)
(* and a framed encoder.  One scheduling pass is Connection::poll; every   *)
(* iteration of the loops in poll_decoder and poll_futures is one step.    *)
(***************************************************************************)
EXTENDS Integers, Sequences, FiniteSets, TLC

\* Bounds of the model.
MaxReq == 2
MaxSeq == 2
MaxCtx == 2
MaxConn == 3
MaxInFlight == 1

Seqs == 1..MaxSeq
Ctxs == 1..MaxCtx
Ids  == 1..MaxReq
NoCtx == 0

VARIABLES
    status,         \* what Connection::poll has returned: "running" (NotReady so far), "done", "frame_error", "encode_error"
    pc,             \* position inside Connection::poll: "idle", "decoder", "futures", "encoder"
    decoder_ready,  \* local of Connection::poll
    futures_ready,  \* local of Connection::poll
    eof,            \* the decoder has returned Ready(None)
    decoded,        \* history of what decoder.poll() produced: requests and user errors
    futures,        \* Connection.futures: the Invocations in flight
    woken,          \* ids of the Invocations FuturesUnordered will poll next
    handler,        \* state of the handler future of each call
    polling,        \* the Invocation whose handler code is running (NoInvocation: none)
    current,        \* the context currently visible (Context::with)
    saved,          \* the context Context::with restores when its body returns
    sent,           \* responses handed to encoder.start_send, in order
    nflushed,       \* how many of them poll_complete has written out
    encoder_failed, \* the encoder has returned an Err (from start_send or poll_complete)
    calls,          \* history of service.call: the ids of the handler futures it returned
    \* The Server and the tasks it has spawned, one per accepted connection.
    listener,       \* what Server::poll has returned: "running" (NotReady so far), "done", "failed"
    incoming,       \* the connection source: "open", "ended" (Ready(None)), "failed" (Err)
    tasks,          \* per spawned task: where it stands, the service built for it, its in-flight count
    factory_calls   \* how often new_service.new_service() has been called

\* One Connection.
cvars == <<status, pc, decoder_ready, futures_ready, eof, decoded, futures, woken,
           handler, polling, current, saved, sent, nflushed, encoder_failed, calls>>

\* The Server.
svars == <<listener, incoming, tasks, factory_calls>>

vars == <<cvars, svars>>

----------------------------------------------------------------------------
\* proto::Request, proto::DecodeError::User and proto::Response values.

ReqPing(seq) == [kind |-> "Ping", seq |-> seq]
ReqInvoke(seq) == [kind |-> "Invoke", seq |-> seq]
ErrUser(seq) == [kind |-> "User", seq |-> seq]
ErrFrame == [kind |-> "Frame"]

ResponsePing(seq) == [kind |-> "Ping", seq |-> seq, res |-> "Pong"]
ResponseInvoke(seq, res) == [kind |-> "Invoke", seq |-> seq, res |-> res]

\* Invocation { seq, future, ctx }; id names the handler future it owns.
Invocation(id, seq, ctx) == [id |-> id, seq |-> seq, ctx |-> ctx]
NoInvocation == [id |-> 0, seq |-> 0, ctx |-> NoCtx]

----------------------------------------------------------------------------
\* Context::with(|| body), entering: the scope becomes the visible context.
with_enter(ctx) ==
    /\ saved' = current
    /\ current' = ctx

\* Context::with(|| body), leaving: the previously visible context is restored.
with_exit ==
    /\ current' = saved
    /\ saved' = NoCtx

\* Variant: an item offered while the encoder holds unflushed data is not taken.
start_send_Rejects(item, ok) ==
    /\ sent' = IF nflushed < Len(sent) THEN sent ELSE Append(sent, item)
    /\ encoder_failed' = ~ok
    /\ status' = IF ok THEN status ELSE "encode_error"

\* Variant: the result of start_send is not looked at.
start_send_ErrIgnored(item, ok) ==
    /\ sent' = Append(sent, item)
    /\ encoder_failed' = ~ok
    /\ status' = status

\* encoder.start_send(item)?: the item is handed over; an Err ends the session.
start_send(item, ok) ==
    /\ sent' = Append(sent, item)
    /\ encoder_failed' = ~ok
    /\ status' = IF ok THEN status ELSE "encode_error"

----------------------------------------------------------------------------
\* The decoder is a fused stream: once it has returned Ready(None) it returns Ready(None)
\* again, and after a frame error it is not polled any more.  The peer sends at most
\* MaxReq requests (malformed ones included).

Init ==
    /\ status = "running"
    /\ pc = "idle"
    /\ decoder_ready = FALSE
    /\ futures_ready = FALSE
    /\ eof = FALSE
    /\ decoded = <<>>
    /\ futures = {}
    /\ woken = {}
    /\ handler = [i \in Ids |-> "NotCalled"]
    /\ polling = NoInvocation
    /\ current = NoCtx
    /\ saved = NoCtx
    /\ sent = <<>>
    /\ nflushed = 0
    /\ encoder_failed = FALSE
    /\ calls = <<>>
    /\ listener = "running"
    /\ incoming = "open"
    /\ tasks = <<>>
    /\ factory_calls = 0

\* Connection::poll is entered: the task is scheduled.
Connection_poll ==
    /\ status = "running" /\ pc = "idle"
    /\ pc' = "decoder"
    /\ UNCHANGED <<status, decoder_ready, futures_ready, eof, decoded, futures, woken,
                   handler, polling, current, saved, sent, nflushed>>
    /\ UNCHANGED <<calls, encoder_failed>>
    /\ UNCHANGED svars

\* Variant: the decode phase hands over to the next phase after each Ping.
poll_decoder_Ping_Yields(seq, ok) ==
    /\ status = "running" /\ pc = "decoder" /\ polling = NoInvocation
    /\ ~eof /\ Len(decoded) < MaxReq
    /\ decoded' = Append(decoded, ReqPing(seq))
    /\ start_send(ResponsePing(seq), ok)
    /\ pc' = "futures"
    /\ decoder_ready' = FALSE
    /\ UNCHANGED <<futures_ready, eof, futures, woken,
                   handler, polling, current, saved, nflushed>>
    /\ UNCHANGED calls
    /\ UNCHANGED svars

\* Variant: a Ping is dispatched to the handler like an Invoke and not answered at once.
poll_decoder_Ping_Dispatched(seq, ok) ==
    /\ status = "running" /\ pc = "decoder" /\ polling = NoInvocation
    /\ ~eof /\ Len(decoded) < MaxReq
    /\ decoded' = Append(decoded, ReqPing(seq))
    /\ handler' = [handler EXCEPT ![Len(decoded) + 1] = "Pending"]
    /\ futures' = futures \cup {Invocation(Len(decoded) + 1, seq, NoCtx)}
    /\ woken' = woken \cup {Len(decoded) + 1}
    /\ UNCHANGED <<status, pc, decoder_ready, futures_ready, eof, polling, current,
                   saved, sent, nflushed>>
    /\ UNCHANGED <<calls, encoder_failed>>
    /\ UNCHANGED svars

\* poll_decoder: decoder.poll() = Ok(Ready(Some(Request::Ping(seq)))).
poll_decoder_Ping(seq, ok) ==
    /\ status = "running" /\ pc = "decoder" /\ polling = NoInvocation
    /\ ~eof /\ Len(decoded) < MaxReq
    /\ decoded' = Append(decoded, ReqPing(seq))
    /\ start_send(ResponsePing(seq), ok)
    /\ UNCHANGED <<pc, decoder_ready, futures_ready, eof, futures, woken,
                   handler, polling, current, saved, nflushed>>
    /\ UNCHANGED calls
    /\ UNCHANGED svars

\* Variant: the handler is called a second time for the same Invoke.
poll_decoder_Invoke_CallsTwice(seq, ctx) ==
    /\ status = "running" /\ pc = "decoder" /\ polling = NoInvocation
    /\ ~eof /\ Len(decoded) < MaxReq
    /\ decoded' = Append(decoded, ReqInvoke(seq))
    /\ with_enter(ctx)
    /\ calls' = calls \o <<Len(decoded) + 1, Len(decoded) + 1>>
    /\ polling' = Invocation(Len(decoded) + 1, seq, ctx)
    /\ handler' = [handler EXCEPT ![Len(decoded) + 1] = "Pending"]
    /\ UNCHANGED <<status, pc, decoder_ready, futures_ready, eof, futures, woken,
                   sent, nflushed>>
    /\ UNCHANGED encoder_failed
    /\ UNCHANGED svars

\* poll_decoder: decoder.poll() = Ok(Ready(Some(Request::Invoke(seq, _, ctx, payload))));
\* ctx.with is entered and service.call(payload) runs.
poll_decoder_Invoke(seq, ctx) ==
    /\ status = "running" /\ pc = "decoder" /\ polling = NoInvocation
    /\ ~eof /\ Len(decoded) < MaxReq
    /\ decoded' = Append(decoded, ReqInvoke(seq))
    /\ with_enter(ctx)
    /\ calls' = Append(calls, Len(decoded) + 1)
    /\ polling' = Invocation(Len(decoded) + 1, seq, ctx)
    /\ handler' = [handler EXCEPT ![Len(decoded) + 1] = "Pending"]
    /\ UNCHANGED <<status, pc, decoder_ready, futures_ready, eof, futures, woken,
                   sent, nflushed>>
    /\ UNCHANGED encoder_failed
    /\ UNCHANGED svars

\* Variant: the in-flight set is keyed by seq, a new Invocation replaces one of its seq.
poll_decoder_push_Replaces ==
    /\ status = "running" /\ pc = "decoder" /\ polling # NoInvocation
    /\ with_exit
    /\ futures' = {inv \in futures : inv.seq # polling.seq} \cup {polling}
    /\ woken' = woken \cup {polling.id}
    /\ polling' = NoInvocation
    /\ UNCHANGED <<status, pc, decoder_ready, futures_ready, eof, decoded, handler,
                   sent, nflushed>>
    /\ UNCHANGED <<calls, encoder_failed>>
    /\ UNCHANGED svars

\* poll_decoder: service.call returned the future; ctx.with is left and the
\* Invocation is pushed on the in-flight set.
poll_decoder_push ==
    /\ status = "running" /\ pc = "decoder" /\ polling # NoInvocation
    /\ with_exit
    /\ futures' = futures \cup {polling}
    /\ woken' = woken \cup {polling.id}
    /\ polling' = NoInvocation
    /\ UNCHANGED <<status, pc, decoder_ready, futures_ready, eof, decoded, handler,
                   sent, nflushed>>
    /\ UNCHANGED <<calls, encoder_failed>>
    /\ UNCHANGED svars

\* Variant: a decoder without progress ends the pass, as try_ready! would.
poll_decoder_NotReady_Returns ==
    /\ status = "running" /\ pc = "decoder" /\ polling = NoInvocation
    /\ ~eof
    /\ decoder_ready' = FALSE
    /\ pc' = "idle"
    /\ UNCHANGED <<status, futures_ready, eof, decoded, futures, woken,
                   handler, polling, current, saved, sent, nflushed>>
    /\ UNCHANGED <<calls, encoder_failed>>
    /\ UNCHANGED svars

\* poll_decoder: decoder.poll() = Ok(NotReady).
poll_decoder_NotReady ==
    /\ status = "running" /\ pc = "decoder" /\ polling = NoInvocation
    /\ ~eof
    /\ decoder_ready' = FALSE
    /\ pc' = "futures"
    /\ UNCHANGED <<status, futures_ready, eof, decoded, futures, woken,
                   handler, polling, current, saved, sent, nflushed>>
    /\ UNCHANGED <<calls, encoder_failed>>
    /\ UNCHANGED svars

\* Variant: stream end is reported as "no progress possible" instead of completion.
poll_decoder_None_NotReady ==
    /\ status = "running" /\ pc = "decoder" /\ polling = NoInvocation
    /\ eof' = TRUE
    /\ decoder_ready' = FALSE
    /\ pc' = "futures"
    /\ UNCHANGED <<status, futures_ready, decoded, futures, woken,
                   handler, polling, current, saved, sent, nflushed>>
    /\ UNCHANGED <<calls, encoder_failed>>
    /\ UNCHANGED svars

\* poll_decoder: decoder.poll() = Ok(Ready(None)).
poll_decoder_None ==
    /\ status = "running" /\ pc = "decoder" /\ polling = NoInvocation
    /\ eof' = TRUE
    /\ decoder_ready' = TRUE
    /\ pc' = "futures"
    /\ UNCHANGED <<status, futures_ready, decoded, futures, woken,
                   handler, polling, current, saved, sent, nflushed>>
    /\ UNCHANGED <<calls, encoder_failed>>
    /\ UNCHANGED svars

\* Variant: a user error is answered but then escalated like a frame error.
poll_decoder_User_Fatal(seq, ok) ==
    /\ status = "running" /\ pc = "decoder" /\ polling = NoInvocation
    /\ ~eof /\ Len(decoded) < MaxReq
    /\ decoded' = Append(decoded, ErrUser(seq))
    /\ sent' = Append(sent, ResponseInvoke(seq, "UserErr"))
    /\ status' = "frame_error"
    /\ UNCHANGED <<pc, decoder_ready, futures_ready, eof, futures, woken,
                   handler, polling, current, saved, nflushed>>
    /\ UNCHANGED <<calls, encoder_failed>>
    /\ UNCHANGED svars

\* poll_decoder: decoder.poll() = Err(DecodeError::User(seq, err)).
poll_decoder_User(seq, ok) ==
    /\ status = "running" /\ pc = "decoder" /\ polling = NoInvocation
    /\ ~eof /\ Len(decoded) < MaxReq
    /\ decoded' = Append(decoded, ErrUser(seq))
    /\ start_send(ResponseInvoke(seq, "UserErr"), ok)
    /\ UNCHANGED <<pc, decoder_ready, futures_ready, eof, futures, woken,
                   handler, polling, current, saved, nflushed>>
    /\ UNCHANGED calls
    /\ UNCHANGED svars

\* Variant: a frame error only ends the decode phase; the pass goes on.
poll_decoder_Frame_Swallowed ==
    /\ status = "running" /\ pc = "decoder" /\ polling = NoInvocation
    /\ ~eof
    /\ decoded' = Append(decoded, ErrFrame)
    /\ eof' = TRUE
    /\ decoder_ready' = FALSE
    /\ pc' = "futures"
    /\ UNCHANGED <<status, futures_ready, futures, woken,
                   handler, polling, current, saved, sent, nflushed>>
    /\ UNCHANGED <<calls, encoder_failed>>
    /\ UNCHANGED svars

\* poll_decoder: decoder.poll() = Err(DecodeError::Frame(err)).
poll_decoder_Frame ==
    /\ status = "running" /\ pc = "decoder" /\ polling = NoInvocation
    /\ ~eof
    /\ decoded' = Append(decoded, ErrFrame)
    /\ status' = "frame_error"
    /\ UNCHANGED <<pc, decoder_ready, futures_ready, eof, futures, woken,
                   handler, polling, current, saved, sent, nflushed>>
    /\ UNCHANGED <<calls, encoder_failed>>
    /\ UNCHANGED svars

\* Variant: the handler future is polled without entering the invocation's context.
Invocation_poll_NoScope(inv) ==
    /\ status = "running" /\ pc = "futures" /\ polling = NoInvocation
    /\ inv \in futures /\ inv.id \in woken
    /\ woken' = woken \ {inv.id}
    /\ polling' = inv
    /\ saved' = current
    /\ UNCHANGED <<status, pc, decoder_ready, futures_ready, eof, decoded, futures,
                   handler, current, sent, nflushed>>
    /\ UNCHANGED <<calls, encoder_failed>>
    /\ UNCHANGED svars

\* Inside futures.poll(): Invocation::poll of a woken Invocation starts; self.ctx.with
\* is entered and the handler future is polled.
Invocation_poll(inv) ==
    /\ status = "running" /\ pc = "futures" /\ polling = NoInvocation
    /\ inv \in futures /\ inv.id \in woken
    /\ woken' = woken \ {inv.id}
    /\ polling' = inv
    /\ with_enter(inv.ctx)
    /\ UNCHANGED <<status, pc, decoder_ready, futures_ready, eof, decoded, futures,
                   handler, sent, nflushed>>
    /\ UNCHANGED <<calls, encoder_failed>>
    /\ UNCHANGED svars

\* Variant: an Invocation that is not ready is dropped from the in-flight set.
Invocation_poll_NotReady_Drops ==
    /\ status = "running" /\ pc = "futures" /\ polling # NoInvocation
    /\ handler[polling.id] = "Pending"
    /\ with_exit
    /\ futures' = futures \ {polling}
    /\ polling' = NoInvocation
    /\ UNCHANGED <<status, pc, decoder_ready, futures_ready, eof, decoded,
                   woken, handler, sent, nflushed>>
    /\ UNCHANGED <<calls, encoder_failed>>
    /\ UNCHANGED svars

\* Invocation::poll: future.poll() = Ok(NotReady); the Invocation stays in flight.
Invocation_poll_NotReady ==
    /\ status = "running" /\ pc = "futures" /\ polling # NoInvocation
    /\ handler[polling.id] = "Pending"
    /\ with_exit
    /\ polling' = NoInvocation
    /\ UNCHANGED <<status, pc, decoder_ready, futures_ready, eof, decoded, futures,
                   woken, handler, sent, nflushed>>
    /\ UNCHANGED <<calls, encoder_failed>>
    /\ UNCHANGED svars

\* Variant: the item carries another seq than the invocation's own.
InvocationItem_WrongSeq(inv) == <<(inv.seq % MaxSeq) + 1, handler[inv.id]>>

\* The item Invocation::poll resolves to: (seq, Ok(res)) or (seq, Err(err)).
InvocationItem(inv) == <<inv.seq, handler[inv.id]>>

\* Variant: a resolved Invocation stays in the in-flight set.
poll_futures_Some_Keeps(ok) ==
    /\ status = "running" /\ pc = "futures" /\ polling # NoInvocation
    /\ handler[polling.id] # "Pending"
    /\ with_exit
    /\ polling' = NoInvocation
    /\ start_send(ResponseInvoke(polling.seq, handler[polling.id]), ok)
    /\ UNCHANGED <<pc, decoder_ready, futures_ready, eof, decoded, futures, woken,
                   handler, nflushed>>
    /\ UNCHANGED calls
    /\ UNCHANGED svars

\* Variant: a handler error is propagated as the session's error, not answered.
poll_futures_Some_ErrFatal(ok) ==
    /\ status = "running" /\ pc = "futures" /\ polling # NoInvocation
    /\ handler[polling.id] # "Pending"
    /\ with_exit
    /\ futures' = futures \ {polling}
    /\ woken' = woken \ {polling.id}
    /\ polling' = NoInvocation
    /\ IF handler[polling.id] = "HandlerErr"
          THEN status' = "handler_error" /\ sent' = sent /\ encoder_failed' = FALSE
          ELSE start_send(ResponseInvoke(polling.seq, handler[polling.id]), ok)
    /\ UNCHANGED <<pc, decoder_ready, futures_ready, eof, decoded, handler, nflushed>>
    /\ UNCHANGED calls
    /\ UNCHANGED svars

\* Invocation::poll resolves; poll_futures: futures.poll() = Ready(Some((seq, result)))
\* and the response is handed to the encoder.
poll_futures_Some(ok) ==
    /\ status = "running" /\ pc = "futures" /\ polling # NoInvocation
    /\ handler[polling.id] # "Pending"
    /\ with_exit
    /\ futures' = futures \ {polling}
    /\ woken' = woken \ {polling.id}
    /\ polling' = NoInvocation
    /\ start_send(ResponseInvoke(InvocationItem(polling)[1], InvocationItem(polling)[2]), ok)
    /\ UNCHANGED <<pc, decoder_ready, futures_ready, eof, decoded, handler, nflushed>>
    /\ UNCHANGED calls
    /\ UNCHANGED svars

\* poll_futures: futures.poll() = NotReady (try_ready! returns).
poll_futures_NotReady ==
    /\ status = "running" /\ pc = "futures" /\ polling = NoInvocation
    /\ futures # {} /\ woken = {}
    /\ futures_ready' = FALSE
    /\ pc' = "encoder"
    /\ UNCHANGED <<status, decoder_ready, eof, decoded, futures, woken,
                   handler, polling, current, saved, sent, nflushed>>
    /\ UNCHANGED <<calls, encoder_failed>>
    /\ UNCHANGED svars

\* poll_futures: futures.poll() = Ready(None).
poll_futures_None ==
    /\ status = "running" /\ pc = "futures" /\ polling = NoInvocation
    /\ futures = {}
    /\ futures_ready' = TRUE
    /\ pc' = "encoder"
    /\ UNCHANGED <<status, decoder_ready, eof, decoded, futures, woken,
                   handler, polling, current, saved, sent, nflushed>>
    /\ UNCHANGED <<calls, encoder_failed>>
    /\ UNCHANGED svars

\* Variant: the encoder's flush is not consulted.
PollResult_IgnoresEncoder(encoder_ready) ==
    IF futures_ready /\ decoder_ready THEN "done" ELSE "running"

\* Variant: the in-flight set is not consulted.
PollResult_IgnoresFutures(encoder_ready) ==
    IF encoder_ready /\ decoder_ready THEN "done" ELSE "running"

\* The value Connection::poll returns once the three phases have run.
PollResult(encoder_ready) ==
    IF encoder_ready /\ futures_ready /\ decoder_ready THEN "done" ELSE "running"

\* poll_encoder: encoder.poll_complete() writes n more responses out and is Ready when
\* none is left; Connection::poll returns and its locals are gone.
poll_encoder(n) ==
    /\ status = "running" /\ pc = "encoder"
    /\ n \in 0..(Len(sent) - nflushed)
    /\ nflushed' = nflushed + n
    /\ status' = PollResult(nflushed + n = Len(sent))
    /\ pc' = "idle"
    /\ decoder_ready' = FALSE
    /\ futures_ready' = FALSE
    /\ UNCHANGED <<eof, decoded, futures, woken, handler, polling, current, saved, sent>>
    /\ UNCHANGED <<calls, encoder_failed>>
    /\ UNCHANGED svars

\* poll_encoder: encoder.poll_complete() = Err.
poll_encoder_Err ==
    /\ status = "running" /\ pc = "encoder"
    /\ status' = "encode_error"
    /\ encoder_failed' = TRUE
    /\ UNCHANGED <<pc, decoder_ready, futures_ready, eof, decoded, futures, woken,
                   handler, polling, current, saved, sent, nflushed>>
    /\ UNCHANGED calls
    /\ UNCHANGED svars

\* The handler future of call id completes (with a value or an error) and notifies the task.
HandlerComplete(id, res) ==
    /\ status = "running"
    /\ handler[id] = "Pending"
    /\ handler' = [handler EXCEPT ![id] = res]
    /\ woken' = woken \cup {id}
    /\ UNCHANGED <<status, pc, decoder_ready, futures_ready, eof, decoded, futures,
                   polling, current, saved, sent, nflushed>>
    /\ UNCHANGED <<calls, encoder_failed>>
    /\ UNCHANGED svars

\* The handler future of call id notifies the task without having completed.
HandlerWake(id) ==
    /\ status = "running"
    /\ handler[id] = "Pending"
    /\ id \notin woken
    /\ woken' = woken \cup {id}
    /\ UNCHANGED <<status, pc, decoder_ready, futures_ready, eof, decoded, futures,
                   handler, polling, current, saved, sent, nflushed>>
    /\ UNCHANGED <<calls, encoder_failed>>
    /\ UNCHANGED svars

Session ==
    \/ Connection_poll
    \/ \E seq \in Seqs, ok \in BOOLEAN : poll_decoder_Ping(seq, ok)
    \/ \E seq \in Seqs, ctx \in Ctxs : poll_decoder_Invoke(seq, ctx)
    \/ poll_decoder_push
    \/ poll_decoder_NotReady
    \/ poll_decoder_None
    \/ \E seq \in Seqs, ok \in BOOLEAN : poll_decoder_User(seq, ok)
    \/ poll_decoder_Frame
    \/ \E inv \in futures : Invocation_poll(inv)
    \/ Invocation_poll_NotReady
    \/ \E ok \in BOOLEAN : poll_futures_Some(ok)
    \/ poll_futures_NotReady
    \/ poll_futures_None
    \/ \E n \in 0..Len(sent) : poll_encoder(n)
    \/ poll_encoder_Err

Handlers ==
    \/ \E id \in Ids, res \in {"Ok", "HandlerErr"} : HandlerComplete(id, res)
    \/ \E id \in Ids : HandlerWake(id)

Next == Session \/ Handlers

Spec == Init /\ [][Next]_vars

\* The task is polled whenever it can run, every handler future completes, and
\* the transport eventually takes everything the encoder holds.
HandlerCompletes(id) == \E res \in {"Ok", "HandlerErr"} : HandlerComplete(id, res)
poll_encoder_all == \E n \in 0..Len(sent) : poll_encoder(n) /\ nflushed' = Len(sent)

FairSpec ==
    /\ Spec
    /\ WF_vars(Session)
    /\ \A id \in Ids : WF_vars(HandlerCompletes(id))
    /\ SF_vars(poll_encoder_all)

----------------------------------------------------------------------------
\* The Server: it accepts connections from `incoming` and spawns one task per
\* connection.  A task first awaits the service its new_service() call is
\* building and then runs the Connection; whatever the task ends with is
\* logged inside the task and the task resolves to Ok(()).

\* A spawned task: where it stands, the service built for it, the number of
\* Invocations its Connection holds.
Task(state, service, inflight) == [state |-> state, service |-> service, inflight |-> inflight]

\* Variant: every connection is served by the service of the first factory call.
Server_poll_Some_Shared ==
    /\ listener = "running" /\ incoming = "open"
    /\ Len(tasks) < MaxConn
    /\ factory_calls' = 1
    /\ tasks' = Append(tasks, Task("building", 1, 0))
    /\ UNCHANGED <<listener, incoming>>
    /\ UNCHANGED cvars

\* Server::poll: incoming.poll() = Ok(Ready(Some(stream))); self.spawn(stream) calls
\* new_service() and hands the task to the executor, and the loop goes on.
Server_poll_Some ==
    /\ listener = "running" /\ incoming = "open"
    /\ Len(tasks) < MaxConn
    /\ factory_calls' = factory_calls + 1
    /\ tasks' = Append(tasks, Task("building", factory_calls + 1, 0))
    /\ UNCHANGED <<listener, incoming>>
    /\ UNCHANGED cvars

\* Variant: an exhausted source completes the Server only once no task is left running.
Server_poll_None_Waits ==
    /\ listener = "running" /\ incoming = "open"
    /\ incoming' = "ended"
    /\ listener' = IF \A k \in 1..Len(tasks) : tasks[k].state \notin {"building", "connection"}
                   THEN "done" ELSE "running"
    /\ UNCHANGED <<tasks, factory_calls>>
    /\ UNCHANGED cvars

\* Server::poll: incoming.poll() = Ok(Ready(None)); the Server completes.
Server_poll_None ==
    /\ listener = "running" /\ incoming = "open"
    /\ incoming' = "ended"
    /\ listener' = "done"
    /\ UNCHANGED <<tasks, factory_calls>>
    /\ UNCHANGED cvars

\* Server::poll: incoming.poll() = Err(e); try_ready! returns the error.
Server_poll_Err ==
    /\ listener = "running" /\ incoming = "open"
    /\ incoming' = "failed"
    /\ listener' = "failed"
    /\ UNCHANGED <<tasks, factory_calls>>
    /\ UNCHANGED cvars

\* spawn: the service future of task k resolves to a service; Connection::spawn.
spawn_service_Ok(k) ==
    /\ tasks[k].state = "building"
    /\ tasks' = [tasks EXCEPT ![k].state = "connection"]
    /\ UNCHANGED <<listener, incoming, factory_calls>>
    /\ UNCHANGED cvars

\* Variant: a failed service construction fails the Server.
spawn_service_Err_Halts(k) ==
    /\ tasks[k].state = "building"
    /\ tasks' = [tasks EXCEPT ![k].state = "discarded"]
    /\ listener' = "failed"
    /\ UNCHANGED <<incoming, factory_calls>>
    /\ UNCHANGED cvars

\* spawn_service: the service future of task k fails; the error is logged, and_then
\* skips Connection::spawn and the task ends.
spawn_service_Err(k) ==
    /\ tasks[k].state = "building"
    /\ tasks' = [tasks EXCEPT ![k].state = "discarded"]
    /\ UNCHANGED <<listener, incoming, factory_calls>>
    /\ UNCHANGED cvars

\* The Connection of task k decodes an Invoke and pushes its Invocation.
Connection_push(k) ==
    /\ tasks[k].state = "connection"
    /\ tasks[k].inflight < MaxInFlight
    /\ tasks' = [tasks EXCEPT ![k].inflight = @ + 1]
    /\ UNCHANGED <<listener, incoming, factory_calls>>
    /\ UNCHANGED cvars

\* An Invocation of the Connection of task k resolves and leaves its set.
Connection_resolve(k) ==
    /\ tasks[k].state = "connection"
    /\ tasks[k].inflight > 0
    /\ tasks' = [tasks EXCEPT ![k].inflight = @ - 1]
    /\ UNCHANGED <<listener, incoming, factory_calls>>
    /\ UNCHANGED cvars

\* The Connection of task k returns Ok(Ready(())).
Connection_Ok(k) ==
    /\ tasks[k].state = "connection"
    /\ tasks[k].inflight = 0
    /\ tasks' = [tasks EXCEPT ![k].state = "finished"]
    /\ UNCHANGED <<listener, incoming, factory_calls>>
    /\ UNCHANGED cvars

\* The Connection of task k returns Err(e): the error is logged in the task.
Connection_Err(k) ==
    /\ tasks[k].state = "connection"
    /\ tasks' = [tasks EXCEPT ![k].state = "error"]
    /\ UNCHANGED <<listener, incoming, factory_calls>>
    /\ UNCHANGED cvars

Listener ==
    \/ Server_poll_Some
    \/ Server_poll_None
    \/ Server_poll_Err

Tasks ==
    \/ \E k \in 1..Len(tasks) : spawn_service_Ok(k)
    \/ \E k \in 1..Len(tasks) : spawn_service_Err(k)
    \/ \E k \in 1..Len(tasks) : Connection_push(k)
    \/ \E k \in 1..Len(tasks) : Connection_resolve(k)
    \/ \E k \in 1..Len(tasks) : Connection_Ok(k)
    \/ \E k \in 1..Len(tasks) : Connection_Err(k)

ServerNext == Listener \/ Tasks

ServerSpec == Init /\ [][ServerNext]_vars

----------------------------------------------------------------------------
\* Vocabulary of the properties.

Fatal == status \in {"frame_error", "encode_error"}

\* Positions of the requests and user errors the decoder has produced.
Requests == {k \in 1..Len(decoded) : decoded[k].kind # "Frame"}

DistinctSeqs ==
    \A i, j \in Requests : i # j => decoded[i].seq # decoded[j].seq

\* Response r is the response request q calls for.
Answers(r, q) ==
    /\ r.seq = q.seq
    /\ \/ q.kind = "Ping" /\ r.kind = "Ping"
       \/ q.kind = "Invoke" /\ r.kind = "Invoke" /\ r.res \in {"Ok", "HandlerErr"}
       \/ q.kind = "User" /\ r.kind = "Invoke" /\ r.res = "UserErr"

Answered(k) == k \in Requests /\ \E j \in 1..Len(sent) : Answers(sent[j], decoded[k])

\* The step just decoded an item of this kind.
Decodes(kind) ==
    /\ Len(decoded') = Len(decoded) + 1
    /\ decoded'[Len(decoded')].kind = kind

\* The step is the one in which the Invocation being polled resolves.
Resolves ==
    /\ pc = "futures" /\ polling # NoInvocation
    /\ handler[polling.id] # "Pending"
    /\ polling' = NoInvocation

\* The Invokes whose Invocation has resolved and left the in-flight set.
Resolved == {k \in Requests : /\ decoded[k].kind = "Invoke"
                              /\ polling.id # k
                              /\ \A inv \in futures : inv.id # k}

\* The responses the session has produced so far, one per Ping, user error and
\* resolved Invoke.
Produced == Cardinality({k \in Requests : decoded[k].kind \in {"Ping", "User"}})
              + Cardinality(Resolved)

\* What the session holds: Invocations in flight and responses not yet flushed.
Backlog == Cardinality(futures) + Len(sent) - nflushed

\* The positions of the Invokes among the decoded items, in decode order.
InvokePositions ==
    SelectSeq([k \in 1..Len(decoded) |-> k], LAMBDA k : decoded[k].kind = "Invoke")

----------------------------------------------------------------------------
\* C1: with pairwise distinct seqs, fair scheduling of the session and handler futures
\* that all complete, every decoded request is eventually followed by a response with
\* its seq handed to the encoder, unless a connection-fatal error ends the session.
C1_EveryRequestAnswered ==
    \A k \in Ids :
        (k \in Requests /\ DistinctSeqs) ~> (Fatal \/ ~DistinctSeqs \/ Answered(k))

C1_Witness ==
    /\ status = "running" /\ DistinctSeqs /\ Len(decoded) = MaxReq
    /\ \E k \in Requests : decoded[k].kind = "Ping"
    /\ \E k \in Requests : decoded[k].kind = "Invoke"
    /\ \A k \in Requests : Answered(k)

\* C2: with pairwise distinct seqs, at most one response has been handed over per
\* decoded request, every response answers a decoded request of the matching kind, and
\* a handler result is answered only once its Invocation has left the in-flight set.
C2_NoDuplicateNoSpurious ==
    DistinctSeqs =>
        /\ \A i, j \in 1..Len(sent) : i # j => sent[i].seq # sent[j].seq
        /\ \A j \in 1..Len(sent) :
              \E k \in Requests :
                  /\ Answers(sent[j], decoded[k])
                  /\ decoded[k].kind = "Invoke" =>
                        /\ \A inv \in futures : inv.id # k
                        /\ polling.id # k
                        /\ handler[k] = sent[j].res

C2_Witness ==
    /\ DistinctSeqs /\ Len(sent) = MaxReq
    /\ \E j \in 1..Len(sent) : sent[j].kind = "Invoke" /\ sent[j].res = "Ok"
    /\ \E j \in 1..Len(sent) : sent[j].kind = "Ping"

\* C3: the step that decodes UserError(seq, e) hands exactly Response::Invoke(seq, Err(e))
\* to the encoder, stays in the decode phase and leaves the session running (only a
\* failure of that start_send itself ends it, as an encode error).
C3_UserErrorAnswered ==
    [][Decodes("User") =>
          /\ sent' = Append(sent, ResponseInvoke(decoded'[Len(decoded')].seq, "UserErr"))
          /\ pc' = "decoder"
          /\ status' \in {"running", "encode_error"}
          /\ futures' = futures /\ handler' = handler]_vars

C3_Witness ==
    /\ status = "running" /\ Len(decoded) = 2 /\ DistinctSeqs
    /\ decoded[1].kind = "User" /\ decoded[2].kind = "Invoke"
    /\ Answered(1) /\ Answered(2)

\* C4: the step in which the decoder reports a FrameError ends the session with an
\* error where it stands (in the decode phase: the futures and encoder phases of the
\* pass do not run), nothing changes afterwards, and no Invocation that was in flight
\* has a response.
C4_FrameErrorFatal ==
    /\ [][/\ Decodes("Frame") =>
                /\ status' = "frame_error" /\ pc' = "decoder"
                /\ sent' = sent /\ nflushed' = nflushed /\ futures' = futures
          /\ status = "frame_error" => UNCHANGED vars]_vars
    /\ [](status = "frame_error" /\ DistinctSeqs =>
            \A inv \in futures : ~Answered(inv.id))

C4_Witness ==
    /\ status = "frame_error"
    /\ \E inv \in futures : handler[inv.id] = "Ok"
    /\ Len(sent) > nflushed

\* C5: the step in which an Invocation resolves with a handler error hands
\* Response::Invoke(seq, Err(handler_error)) to the encoder, removes the Invocation and
\* stays in the dispatch-completion phase with the session running, as for a success.
C5_HandlerErrorNotFatal ==
    [][Resolves /\ handler[polling.id] = "HandlerErr" =>
          /\ sent' = Append(sent, ResponseInvoke(polling.seq, "HandlerErr"))
          /\ futures' = futures \ {polling}
          /\ pc' = "futures"
          /\ status' \in {"running", "encode_error"}]_vars

C5_Witness ==
    /\ status = "running" /\ Len(sent) = 2
    /\ sent[1].res = "HandlerErr" /\ sent[2].res = "Ok"
    /\ decoded[1].seq = sent[1].seq

\* C6, as stated: once the decode direction has ended with an Invoke still in flight,
\* no response for that Invoke's seq is handed to the encoder any more.
C6_NoResponseAfterStreamEnd ==
    [][eof /\ polling # NoInvocation /\ polling \in futures =>
          ~(/\ Len(sent') = Len(sent) + 1
            /\ sent'[Len(sent')].kind = "Invoke"
            /\ sent'[Len(sent')].seq = polling.seq)]_vars

\* C6, amended: stream end with an Invoke still in flight does not end the session: it
\* is not done while an Invocation is in flight, and the Invocation resolving after
\* stream end hands the response with its seq and result to the encoder and leaves the
\* session running (unless that start_send fails).
C6_StreamEndDrains ==
    /\ [](eof /\ (futures # {} \/ polling # NoInvocation) => status # "done")
    /\ [][eof /\ Resolves =>
            /\ sent' = Append(sent, ResponseInvoke(polling.seq, handler[polling.id]))
            /\ status' \in {"running", "encode_error"}]_vars

C6_Witness ==
    /\ eof /\ status = "running" /\ pc = "futures"
    /\ polling \in futures /\ handler[polling.id] = "Ok"
    /\ sent = <<>>

\* C7: after stream end the session is done only once nothing is in flight, every
\* decoded Invoke has its response and everything handed over is flushed; no decode
\* error follows stream end; and with fair scheduling, completing handlers and a
\* transport that takes the data it ends, as done unless the encoder fails.
C7_DrainsThenDone ==
    /\ [](status = "done" =>
            /\ eof /\ futures = {} /\ polling = NoInvocation
            /\ nflushed = Len(sent)
            /\ Cardinality({k \in Requests : decoded[k].kind = "Invoke"})
                 = Cardinality({j \in 1..Len(sent) : sent[j].res \in {"Ok", "HandlerErr"}}))
    /\ [][eof => status' # "frame_error"]_vars
    /\ eof ~> (status = "done" \/ status = "encode_error")

C7_Witness ==
    /\ status = "done" /\ Len(sent) = MaxReq
    /\ \A j \in 1..Len(sent) : sent[j].res \in {"Ok", "HandlerErr"}

\* C8: the step that decodes Ping(seq) hands Response::Ping(seq) to the encoder in that
\* same step, whatever is in flight, and neither calls the handler nor touches the
\* in-flight set.
C8_PingAnsweredAtOnce ==
    [][Decodes("Ping") =>
          /\ sent' = Append(sent, ResponsePing(decoded'[Len(decoded')].seq))
          /\ futures' = futures /\ woken' = woken
          /\ handler' = handler /\ polling' = polling]_vars

C8_Witness ==
    /\ Len(decoded) = 2 /\ decoded[1].kind = "Invoke" /\ decoded[2].kind = "Ping"
    /\ \E inv \in futures : inv.id = 1 /\ handler[1] = "Pending"
    /\ sent = <<ResponsePing(decoded[2].seq)>>

\* C9: whenever the response of a later decoded Invoke precedes the response of an
\* earlier decoded one, each of the two still carries the seq and the result of its
\* own invocation.
C9_ReorderedResponsesCorrelated ==
    DistinctSeqs =>
        \A a, b \in Requests : \A i, j \in 1..Len(sent) :
            (/\ a < b /\ i < j
             /\ decoded[a].kind = "Invoke" /\ decoded[b].kind = "Invoke"
             /\ sent[i].kind = "Invoke" /\ sent[j].kind = "Invoke"
             /\ sent[i].seq = decoded[b].seq /\ sent[j].seq = decoded[a].seq)
            => sent[i].res = handler[b] /\ sent[j].res = handler[a]

C9_Witness ==
    /\ DistinctSeqs /\ Len(decoded) = 2 /\ Len(sent) = 2
    /\ decoded[1].kind = "Invoke" /\ decoded[2].kind = "Invoke"
    /\ sent[1] = ResponseInvoke(decoded[2].seq, handler[2])
    /\ sent[2] = ResponseInvoke(decoded[1].seq, handler[1])
    /\ handler[1] # handler[2]

\* C10: while handler code of an invocation runs (the initial call or any poll of its
\* future) the visible context is that invocation's own, and when no handler code runs
\* the previously visible context is back.
C10_ContextIsolation ==
    /\ polling # NoInvocation => current = polling.ctx /\ saved = NoCtx
    /\ polling = NoInvocation => current = NoCtx

C10_Witness ==
    /\ Cardinality(futures) = 2
    /\ polling \in futures /\ handler[polling.id] = "Pending"
    /\ \E inv \in futures : inv.ctx # polling.ctx /\ inv.id < polling.id /\ inv.id \notin woken
    /\ current = polling.ctx

\* C11: the step in which the service construction of task k fails discards task k and
\* nothing else: the Server and every other task are as before, and a discarded task
\* never gets a Connection.  Whatever has been discarded, a running Server can accept
\* the next connection and every task whose service is still being built can get its
\* Connection.
C11_FactoryFailureIsolated ==
    /\ [][\A k \in 1..Len(tasks) :
            /\ (tasks[k].state = "building" /\ tasks'[k].state = "discarded") =>
                  /\ listener' = listener /\ incoming' = incoming
                  /\ tasks' = [tasks EXCEPT ![k].state = "discarded"]
            /\ tasks[k].state = "discarded" => tasks'[k] = tasks[k]]_vars
    /\ [](\A k \in 1..Len(tasks) : tasks[k].state = "building" => ENABLED spawn_service_Ok(k))
    /\ []((listener = "running" /\ incoming = "open" /\ Len(tasks) < MaxConn)
              => ENABLED Server_poll_Some)

C11_Witness ==
    \E k, j \in 1..Len(tasks) :
        /\ k < j
        /\ tasks[k].state = "discarded"
        /\ tasks[j].state = "connection" /\ tasks[j].inflight > 0
        /\ listener = "running"

\* C12: the Server has completed successfully exactly when the connection source has
\* ended and has failed exactly when the connection source has failed; the step that
\* completes it is no step of a task, and it is taken whatever the tasks are doing.
C12_ListenerCompletion ==
    /\ [](listener = "done" <=> incoming = "ended")
    /\ [](listener = "failed" <=> incoming = "failed")
    /\ [][listener' # listener => tasks' = tasks /\ incoming' # incoming]_vars
    /\ []((listener = "running" /\ incoming = "open") => ENABLED Server_poll_None)

C12_Witness ==
    /\ listener = "done"
    /\ \E k, j \in 1..Len(tasks) :
          /\ tasks[k].state = "connection" /\ tasks[k].inflight > 0
          /\ tasks[j].state = "building"

\* C13: the step that ends a scheduling pass without a fatal error reports the session
\* done only if the decoder has signalled stream end, no Invocation is in flight and
\* everything handed to the encoder has been flushed; otherwise it reports not done and
\* the session stays schedulable.  A session that is done is in such a state.
C13_DoneOnlyWhenDrained ==
    /\ [][(pc = "encoder" /\ pc' = "idle") =>
            /\ status' \in {"done", "running"}
            /\ status' = "done" => eof' /\ futures' = {} /\ nflushed' = Len(sent')
            /\ ~(eof' /\ futures' = {} /\ nflushed' = Len(sent')) => status' = "running"]_vars
    /\ [](status = "done" => eof /\ futures = {} /\ nflushed = Len(sent))
    /\ [][status' = "done" /\ status # "done" => pc = "encoder" /\ pc' = "idle"]_vars

C13_Witness ==
    /\ status = "done"
    /\ \E k \in Requests : decoded[k].kind = "Invoke"
    /\ Len(sent) = MaxReq /\ nflushed = MaxReq

\* C14: the phases of a scheduling pass run in the order decoder, futures, encoder and
\* a pass ends only out of the encoder phase, also when the decoder or the in-flight set
\* reports no progress; a step that fails stays where it is.  When the futures phase
\* hands over to the encoder phase every Invocation in flight has been polled since it
\* was pushed or last notified, so the response of an Invoke whose handler had completed
\* by then is with the encoder, and the encoder phase can flush all it holds.
C14_PhaseOrder ==
    /\ [][pc' # pc =>
            /\ <<pc, pc'>> \in {<<"idle", "decoder">>, <<"decoder", "futures">>,
                                <<"futures", "encoder">>, <<"encoder", "idle">>}
            /\ status' \in {"running", "done"}]_vars
    /\ [][(pc = "futures" /\ pc' = "encoder") =>
            /\ polling' = NoInvocation
            /\ \A inv \in futures' : inv.id \notin woken']_vars
    /\ []((status = "running" /\ pc = "encoder") => ENABLED poll_encoder_all)

C14_Witness ==
    /\ status = "running" /\ pc = "encoder"
    /\ ~decoder_ready /\ ~futures_ready
    /\ \E inv \in futures : handler[inv.id] = "Pending"
    /\ \E k \in Requests, j \in 1..Len(sent) :
          /\ decoded[k].kind = "Invoke"
          /\ sent[j] = ResponseInvoke(decoded[k].seq, handler[k])
          /\ nflushed < j

C16_BacklogBounded ==
    Backlog < MaxReq

\* C16, amended: what the session holds never exceeds the number of requests decoded
\* so far, and that is its only bound; the decode phase goes on after every request and
\* user error and hands over to the next phase only in a step that decodes nothing
\* (the decoder reports no progress or stream end).
C16_BacklogAtMostDecoded ==
    /\ [](Backlog <= Cardinality(Requests))
    /\ [][(Len(decoded') > Len(decoded) /\ status' = "running") => pc' = "decoder"]_vars
    /\ [][(pc = "decoder" /\ pc' # "decoder") =>
             /\ pc' = "futures" /\ decoded' = decoded
             /\ decoder_ready' = eof']_vars

C16_Witness ==
    /\ status = "running" /\ pc = "decoder"
    /\ Len(decoded) = MaxReq
    /\ Backlog = MaxReq
    /\ \E inv \in futures : handler[inv.id] # "Pending"
    /\ nflushed < Len(sent)

\* C17: the handler has been called once for each decoded Invoke and for nothing else,
\* in decode order, and the call is made in the step that decodes the Invoke.  The
\* in-flight set changes only by the push of the Invocation just created and by the
\* removal of the Invocation that resolves, so every call is either being pushed, in
\* flight, or resolved with one response.
C17_HandlerCalledOncePerInvoke ==
    /\ [](calls = InvokePositions)
    /\ [][Len(calls') # Len(calls) <=> Decodes("Invoke")]_vars
    /\ [][futures' # futures =>
            \/ /\ pc = "decoder" /\ polling # NoInvocation
               /\ polling.id = calls[Len(calls)] /\ polling \notin futures
               /\ futures' = futures \cup {polling}
            \/ /\ Resolves
               /\ polling \in futures /\ futures' = futures \ {polling}]_vars
    /\ [](Len(calls) = Cardinality({inv.id : inv \in futures \cup ({polling} \ {NoInvocation})})
                         + Cardinality(Resolved))
    /\ [](Cardinality(Resolved)
            = Cardinality({j \in 1..Len(sent) : sent[j].res \in {"Ok", "HandlerErr"}}))

C17_Witness ==
    /\ Len(decoded) = MaxReq
    /\ decoded[1].kind \in {"Ping", "User"}
    /\ calls = <<MaxReq>>
    /\ Resolved = {MaxReq}

\* C18: the step in which start_send or the flush fails ends the session with the
\* encoder's error, and from then on the session does nothing: nothing is decoded, no
\* Invocation is polled or removed, nothing is handed to the encoder or flushed.
C18_EncodeFailureFatal ==
    /\ [](encoder_failed <=> status = "encode_error")
    /\ [][status = "encode_error" => cvars' = cvars]_vars
    /\ [][(encoder_failed' /\ ~encoder_failed) =>
            /\ pc' = pc /\ nflushed' = nflushed /\ decoder_ready' = decoder_ready
            /\ futures_ready' = futures_ready]_vars

C18_Witness ==
    /\ encoder_failed
    /\ pc = "encoder"
    /\ \E inv \in futures : handler[inv.id] # "Pending"
    /\ nflushed < Len(sent)

\* C19: a step of task k (its service construction, its Connection's work, its end
\* with or without an error) changes task k only: the Server and every other task are
\* as before.  Every task has its own service, built by the one new_service() call made
\* when its connection was accepted, and a running Server can accept the next
\* connection whatever the tasks have ended with.
C19_SessionIsolation ==
    /\ [][\A k \in 1..Len(tasks) :
            tasks'[k] # tasks[k] =>
               /\ listener' = listener /\ incoming' = incoming
               /\ factory_calls' = factory_calls
               /\ tasks' = [tasks EXCEPT ![k] = tasks'[k]]
               /\ tasks'[k].service = tasks[k].service]_vars
    /\ [](/\ factory_calls = Len(tasks)
          /\ \A j, k \in 1..Len(tasks) : j # k => tasks[j].service # tasks[k].service)
    /\ []((listener = "running" /\ incoming = "open" /\ Len(tasks) < MaxConn)
              => ENABLED Server_poll_Some)
    /\ [](\A k \in 1..Len(tasks) :
             tasks[k].state = "connection" => ENABLED Connection_Ok(k) \/ ENABLED Connection_resolve(k))

C19_Witness ==
    /\ listener = "running"
    /\ Len(tasks) = MaxConn
    /\ tasks[1].state = "error" /\ tasks[1].inflight > 0
    /\ tasks[2].state = "connection" /\ tasks[2].inflight > 0
    /\ tasks[3].state = "finished"

\* C20: an Invoke is dispatched whatever seqs are in flight: the step that decodes it
\* calls the handler, its push adds one Invocation and keeps every other one, also one
\* of the same seq; and each Invocation that resolves hands over a response with its
\* own seq and its own handler's result and removes only itself.
C20_DuplicateSeqsServed ==
    /\ [][Decodes("Invoke") =>
            /\ calls' = Append(calls, Len(decoded'))
            /\ polling' = Invocation(Len(decoded'), decoded'[Len(decoded')].seq, polling'.ctx)]_vars
    /\ [][(pc = "decoder" /\ polling # NoInvocation /\ polling' = NoInvocation) =>
            /\ futures \subseteq futures' /\ polling \in futures'
            /\ Cardinality(futures') = Cardinality(futures) + 1]_vars
    /\ [][Resolves =>
            /\ futures' = futures \ {polling}
            /\ sent' = Append(sent, ResponseInvoke(decoded[polling.id].seq, handler[polling.id]))]_vars

C20_Witness ==
    /\ Len(decoded) = 2 /\ Len(sent) = 2
    /\ decoded[1] = decoded[2] /\ decoded[1].kind = "Invoke"
    /\ handler[1] = "HandlerErr" /\ handler[2] = "Ok"
    /\ sent[1] = ResponseInvoke(decoded[2].seq, "Ok")
    /\ sent[2] = ResponseInvoke(decoded[1].seq, "HandlerErr")

====
